---------------------------- MODULE Spec2Model ----------------------------
(***************************************************************************)
(* A model of the poker decision assistant: the session ledger             *)
(* (poker/sim.py), the Monte Carlo equity estimator (poker/equity.py), the *)
(* EV formulas (poker/ev.py) and the compute / log flow of the front end   *)
(* (app.py).                                                               *)
(*                                                                         *)
(* Numbers.  The program computes in binary floating point.  The model     *)
(* computes the same expressions in exact rational arithmetic (a rational  *)
(* is a record [num, den] in lowest terms with den > 0), so rounding is    *)
(* not modelled.  Chip amounts are whole numbers.                          *)
(***************************************************************************)
EXTENDS Integers, Sequences, FiniteSets

VARIABLES
    session,      \* st.session_state.session: [bankroll, hand_id, logs]
    bankroll0,    \* history: the bankroll the SessionState was built with
    calls,        \* history: the results passed to add_hand, in call order
    frame,        \* the rows the last to_frame() returned (<<>> before any)
    \* the frame of one monte_carlo_equity call
    hero_hole, board, dead_cards, n, seed,   \* its arguments
    rng,          \* state of random.Random(seed)
    wins, ties, trials,
    deck,         \* deck.cards of the current trial
    opp_hole, runout,
    pc,           \* "idle" | "loop" | "sampled" | "done" | "raised"
    equity,       \* the value returned (NoValue until then)
    runs,         \* history: calls made with the current arguments
    first_equity, \* history: what the first of them returned
    evaluated,    \* the last call of an EV formula or of the selector:
                  \* its name, arguments and result
    form,         \* the values the running script got from the decision form
    last_calc,    \* st.session_state.last_calc
    run_result    \* how the last script run ended: "none" | "running" |
                  \* "computed" | "error: ..." (the st.error shown)

ledgerVars == <<session, bankroll0, calls, frame>>
mcVars == <<hero_hole, board, dead_cards, n, seed, rng, wins, ties, trials,
            deck, opp_hole, runout, pc, equity>>
repeatVars == <<runs, first_equity>>
\* everything outside the estimator's frame
appVars == <<form, last_calc, run_result>>
outerVars == <<session, bankroll0, calls, frame, runs, first_equity, evaluated,
               form, last_calc, run_result>>

vars == <<session, bankroll0, calls, frame, hero_hole, board, dead_cards, n,
          seed, rng, wins, ties, trials, deck, opp_hole, runout, pc, equity,
          runs, first_equity, evaluated, form, last_calc, run_result>>

-----------------------------------------------------------------------------
(* Exact rationals standing for the program's floats.                      *)

Abs(x) == IF x < 0 THEN -x ELSE x

RECURSIVE Gcd(_, _)
Gcd(a, b) == IF b = 0 THEN a ELSE Gcd(b, a % b)

Rat(p, q) ==
    LET sg == IF q < 0 THEN -1 ELSE 1
        g  == Gcd(Abs(p), Abs(q))
    IN  [num |-> (sg * p) \div g, den |-> (sg * q) \div g]

Num(i) == [num |-> i, den |-> 1]

RAdd(a, b) == Rat(a.num * b.den + b.num * a.den, a.den * b.den)
RSub(a, b) == Rat(a.num * b.den - b.num * a.den, a.den * b.den)
RMul(a, b) == Rat(a.num * b.num, a.den * b.den)
RDiv(a, b) == Rat(a.num * b.den, a.den * b.num)
RLt(a, b)  == a.num * b.den < b.num * a.den
RLe(a, b)  == a.num * b.den <= b.num * a.den
RMin(a, b) == IF RLt(b, a) THEN b ELSE a      \* Python min(a, b): a unless b < a
RMax(a, b) == IF RLt(a, b) THEN b ELSE a      \* Python max(a, b): a unless b > a

-----------------------------------------------------------------------------
(* poker/sim.py: HandLog and SessionState.                                 *)

MaxHands == 3

InitialBankrolls == {-5, 0, 20}
Results == {-4, 0, 6}
\* (pot, action, ev) of the hands that get logged
LoggedHands == { <<10, "CALL", Num(7)>>, <<0, "FOLD", Num(0)>>,
                 <<10, "RAISE", Rat(76, 5)>> }

HandLog(hand_id, pot, action, ev, result, bankroll) ==
    [hand_id |-> hand_id, pot |-> pot, action |-> action, ev |-> ev,
     result |-> result, bankroll |-> bankroll]

SessionState(bankroll) == [bankroll |-> bankroll, hand_id |-> 0, logs |-> <<>>]

\* Plausible slips used to test the ledger properties.
add_hand_stale_id(S, pot, action, ev, result) ==
    [bankroll |-> S.bankroll + result,
     hand_id  |-> S.hand_id + 1,
     logs     |-> Append(S.logs, HandLog(S.hand_id, pot, action, ev, result,
                                         S.bankroll + result))]

add_hand_rewrites(S, pot, action, ev, result) ==
    [bankroll |-> S.bankroll + result,
     hand_id  |-> S.hand_id + 1,
     logs     |-> Append([i \in 1..Len(S.logs) |->
                             [S.logs[i] EXCEPT !.bankroll = S.bankroll + result]],
                         HandLog(S.hand_id + 1, pot, action, ev, result,
                                 S.bankroll + result))]

\* SessionState.add_hand: the session after the call.
add_hand(S, pot, action, ev, result) ==
    LET id == S.hand_id + 1
        b  == S.bankroll + result
    IN  [bankroll |-> b,
         hand_id  |-> id,
         logs     |-> Append(S.logs, HandLog(id, pot, action, ev, result, b))]

\* SessionState.to_frame: one row per log entry, in log order.
to_frame(S) ==
    [i \in 1..Len(S.logs) |->
        [hand_id |-> S.logs[i].hand_id, pot |-> S.logs[i].pot,
         action |-> S.logs[i].action, ev |-> S.logs[i].ev,
         result |-> S.logs[i].result, bankroll |-> S.logs[i].bankroll]]

LedgerStart ==
    /\ bankroll0 \in InitialBankrolls
    /\ session = SessionState(bankroll0)
    /\ calls = <<>>
    /\ frame = <<>>

AddHand ==
    /\ Len(calls) < MaxHands
    /\ \E h \in LoggedHands, result \in Results :
          /\ session' = add_hand(session, h[1], h[2], h[3], result)
          /\ calls' = Append(calls, result)
    /\ UNCHANGED <<bankroll0, frame>>
    /\ UNCHANGED <<mcVars, repeatVars, evaluated, appVars>>

ToFrame ==
    /\ frame' = to_frame(session)
    /\ UNCHANGED <<session, bankroll0, calls>>
    /\ UNCHANGED <<mcVars, repeatVars, evaluated, appVars>>

LedgerNext == AddHand \/ ToFrame

-----------------------------------------------------------------------------
(* Cards, the deck and the hand evaluator (the treys library, as            *)
(* poker/equity.py uses it).  A card is a number 1..DeckSize; the real deck *)
(* has 52.  Cards 2k-1 and 2k have rank k.                                  *)

DeckSize == 9
MaxTrials == 2

FullDeck == 1..DeckSize
RankOf(c) == (c + 1) \div 2

Range(s) == {s[i] : i \in DOMAIN s}
NoDup(s) == \A i, j \in DOMAIN s : i # j => s[i] # s[j]
Max(S) == CHOOSE x \in S : \A y \in S : y <= x
Max2(a, b) == IF a < b THEN b ELSE a

\* All orders of the cards in S: one card put at every place of every order
\* of the others.
InsertAt(p, i, x) == SubSeq(p, 1, i - 1) \o <<x>> \o SubSeq(p, i, Len(p))
RECURSIVE Perms(_)
Perms(S) ==
    IF S = {} THEN {<<>>}
    ELSE LET x == CHOOSE c \in S : TRUE
         IN  {InsertAt(p, i, x) : p \in Perms(S \ {x}), i \in 1..Cardinality(S)}

\* Lines 20-21: Deck() builds the full deck in the order the library's own
\* shuffle leaves it, which no argument of monte_carlo_equity determines,
\* and line 21 keeps, in that order, the cards not in dead_cards.  Every
\* order of the kept cards can arise.
FreshPools(dead) == Perms(FullDeck \ dead)

\* random.Random(seed) and one step of the generator: a small linear
\* congruential generator stands for the Mersenne Twister.
Random(s) == s % 16
RngStep(s) == (5 * s + 3) % 16

Swap(x, i, j) == [x EXCEPT ![i] = x[j], ![j] = x[i]]

\* rng.shuffle(x) (line 22), Fisher-Yates from the last position down: the
\* shuffled list and the generator's state afterwards.
RECURSIVE ShuffleFrom(_, _, _)
ShuffleFrom(x, i, s) ==
    IF i < 2 THEN [cards |-> x, rng |-> s]
    ELSE LET s1 == RngStep(s)
             j  == (s1 % i) + 1
         IN  ShuffleFrom(Swap(x, i, j), i - 1, s1)

shuffle(x, s) == ShuffleFrom(x, Len(x), s)

\* deck.draw(k), in the form line 25 indexes (a list): k cards leave the deck
\* from one end, here the front (none when k <= 0).
draw(cards, k) ==
    LET m == IF k < 0 THEN 0 ELSE k
    IN  [drawn |-> SubSeq(cards, 1, m), rest |-> SubSeq(cards, m + 1, Len(cards))]

\* A slip: the opponent's cards are read off the deck and left on it.
SampleTrial_peek(cards, b) ==
    LET r == draw(cards, 5 - Len(b))
    IN  [opp_hole |-> SubSeq(cards, 1, 2), runout |-> b \o r.drawn,
         deck |-> r.rest]

\* A slip: the cards already on the board left out of the runout.
SampleTrial_noboard(cards, b) ==
    LET r == draw(SubSeq(cards, 3, Len(cards)), 5 - Len(b))
    IN  [opp_hole |-> SubSeq(cards, 1, 2), runout |-> r.drawn, deck |-> r.rest]

\* Lines 24-29: two cards for the opponent, then the board completed to 5.
SampleTrial(cards, b) ==
    LET d1 == draw(cards, 1)
        d2 == draw(d1.rest, 1)
        needed == 5 - Len(b)
        r  == draw(d2.rest, needed)
    IN  [opp_hole |-> <<d1.drawn[1], d2.drawn[1]>>,
         runout   |-> b \o r.drawn,
         deck     |-> r.rest]

\* Evaluator.evaluate(board, hand): a rank, lower is better.  The stand-in
\* ranks by the highest rank held twice among the cards given (none: 0),
\* then by the highest card among them.
CountRank(all, r) == Cardinality({i \in DOMAIN all : RankOf(all[i]) = r})
PairRanks(all) == {r \in {RankOf(all[i]) : i \in DOMAIN all} : CountRank(all, r) >= 2}
Strength(all) ==
    100 * Max(PairRanks(all) \cup {0}) + Max({RankOf(all[i]) : i \in DOMAIN all})

Ranked(r) == [ok |-> TRUE, rank |-> r]
KeyError == [ok |-> FALSE, rank |-> 0]

\* What evaluate can do: it looks hands of 5, 6 or 7 cards up in tables and
\* raises KeyError for any other number of cards; with a card given twice
\* the lookup finds an entry for some hands and raises for others.
evaluate(b, hand) ==
    LET all == b \o hand
    IN  IF Len(all) \notin {5, 6, 7} THEN {KeyError}
        ELSE IF ~NoDup(all) THEN {Ranked(10000 - Strength(all)), KeyError}
        ELSE {Ranked(10000 - Strength(all))}

NoValue == [num |-> -1, den |-> 0]

\* A slip: the tie weight applied to the wins as well.
ReturnValue_halved(w, t, tr) ==
    RDiv(RMul(Rat(1, 2), RAdd(Num(w), Num(t))), Num(Max2(1, tr)))

\* Line 41: (wins + 0.5 * ties) / max(1, trials).
ReturnValue(w, t, tr) ==
    RDiv(RAdd(Num(w), RMul(Rat(1, 2), Num(t))), Num(Max2(1, tr)))

\* Arguments tried: [hero_hole, board, seed]; dead_cards is hero + board
\* (plus, where the deck leaves room, one more card), n is 0..MaxTrials.
GoodArgs ==
    { <<<<3, 8>>, <<>>, 7>>,
      <<<<7, 8>>, <<1, 5, 6>>, 7>>,       <<<<3, 8>>, <<1, 5, 6>>, 3>>,
      <<<<7, 8>>, <<1, 5, 6, 9>>, 3>>,    <<<<3, 8>>, <<1, 5, 6, 9>>, 7>>,
      <<<<7, 8>>, <<1, 5, 6, 9, 2>>, 7>>, <<<<3, 8>>, <<1, 5, 6, 9, 2>>, 3>> }
BadArgs ==
    { <<<<>>, <<1, 5, 6, 9, 2>>, 7>>,        \* no hero card
      <<<<7>>, <<1, 5, 6>>, 7>>,             \* one hero card
      <<<<7, 8>>, <<2>>, 7>>,                \* board of 1
      <<<<3, 8>>, <<2, 5>>, 3>>,             \* board of 2
      <<<<7>>, <<1, 2, 3, 4, 5, 6>>, 7>>,    \* board of 6
      <<<<7, 8>>, <<7, 5, 6>>, 7>>,          \* hero and board share a card
      <<<<7, 7>>, <<1, 5, 6, 9>>, 3>> }      \* the same hero card twice
ExtraDead == {{}, {DeckSize}}

Enough(hero, b, dead) ==
    Cardinality(FullDeck \ dead) >= 2 + Max2(0, 5 - Len(b))

McIdle ==
    /\ hero_hole = <<>> /\ board = <<>> /\ dead_cards = {}
    /\ n = 0 /\ seed = 0 /\ rng = 0
    /\ wins = 0 /\ ties = 0 /\ trials = 0
    /\ deck = <<>> /\ opp_hole = <<>> /\ runout = <<>>
    /\ pc = "idle" /\ equity = NoValue

\* Lines 4-16: the call binds the arguments and sets the counters.
McCall(hero, b, dead, trialsWanted, sd) ==
    /\ hero_hole' = hero /\ board' = b /\ dead_cards' = dead
    /\ n' = trialsWanted /\ seed' = sd
    /\ rng' = Random(sd)
    /\ wins' = 0 /\ ties' = 0 /\ trials' = 0
    /\ deck' = <<>> /\ opp_hole' = <<>> /\ runout' = <<>>
    /\ pc' = "loop" /\ equity' = NoValue

\* Lines 18-29: one more trial is due; its deck is built, shuffled and drawn.
McSample ==
    /\ pc = "loop" /\ trials < n
    /\ \E pool \in FreshPools(dead_cards) :
          LET sh == shuffle(pool, rng)
              t  == SampleTrial(sh.cards, board)
          IN  /\ rng' = sh.rng
              /\ opp_hole' = t.opp_hole
              /\ runout' = t.runout
              /\ deck' = t.deck
    /\ pc' = "sampled"
    /\ UNCHANGED <<hero_hole, board, dead_cards, n, seed, wins, ties, trials,
                   equity>>
    /\ UNCHANGED outerVars

\* Lines 31-39: both hands are ranked and the trial is counted.  deck,
\* opp_hole and runout are rebound at the top of the next iteration before
\* anything reads them; the model empties them here.  A KeyError out of
\* evaluate leaves the call ("raised") with everything as it was.
McScore ==
    /\ pc = "sampled"
    /\ \E h \in evaluate(runout, hero_hole) :
          \/ /\ ~h.ok
             /\ pc' = "raised"
             /\ UNCHANGED <<wins, ties, trials, deck, opp_hole, runout>>
          \/ /\ h.ok
             /\ \E o \in evaluate(runout, opp_hole) :
                   \/ /\ ~o.ok
                      /\ pc' = "raised"
                      /\ UNCHANGED <<wins, ties, trials, deck, opp_hole, runout>>
                   \/ /\ o.ok
                      /\ wins' = IF h.rank < o.rank THEN wins + 1 ELSE wins
                      /\ ties' = IF h.rank < o.rank THEN ties
                                 ELSE IF h.rank = o.rank THEN ties + 1 ELSE ties
                      /\ trials' = trials + 1
                      /\ pc' = "loop"
                      /\ deck' = <<>> /\ opp_hole' = <<>> /\ runout' = <<>>
    /\ UNCHANGED <<hero_hole, board, dead_cards, n, seed, rng, equity>>
    /\ UNCHANGED outerVars

\* Line 41: the loop is over.
McReturn ==
    /\ pc = "loop" /\ trials >= n
    /\ equity' = ReturnValue(wins, ties, trials)
    /\ pc' = "done"
    /\ UNCHANGED <<hero_hole, board, dead_cards, n, seed, rng, wins, ties,
                   trials, deck, opp_hole, runout>>
    /\ UNCHANGED outerVars

-----------------------------------------------------------------------------
(* The estimator on its own: any of the arguments above.                   *)

EquityCall ==
    /\ pc = "idle"
    /\ \E a \in GoodArgs \cup BadArgs, x \in ExtraDead, k \in 0..MaxTrials :
          LET dead == Range(a[1]) \cup Range(a[2]) \cup x
          IN  /\ Enough(a[1], a[2], dead)
              /\ McCall(a[1], a[2], dead, k, a[3])
    /\ UNCHANGED <<ledgerVars, repeatVars, evaluated, appVars>>

EquityNext == EquityCall \/ McSample \/ McScore \/ McReturn

-----------------------------------------------------------------------------
(* The same call made twice: its arguments, then the call again.           *)

RepeatArgs == {a \in GoodArgs : a[2] # <<>>}

RepeatCall ==
    /\ pc = "idle"
    /\ \E a \in RepeatArgs, k \in 1..MaxTrials :
          McCall(a[1], a[2], Range(a[1]) \cup Range(a[2]), k, a[3])
    /\ runs' = 1
    /\ UNCHANGED <<ledgerVars, first_equity, evaluated, appVars>>

CallAgain ==
    /\ pc = "done" /\ runs = 1
    /\ McCall(hero_hole, board, dead_cards, n, seed)
    /\ runs' = 2
    /\ first_equity' = equity
    /\ UNCHANGED <<ledgerVars, evaluated, appVars>>

RepeatNext == RepeatCall \/ McSample \/ McScore \/ McReturn \/ CallAgain

-----------------------------------------------------------------------------
(* poker/ev.py and the selector of app.py (lines 134-139).                 *)

ChipSteps == 2
EquitySteps == 4

Actions == {"FOLD", "CALL", "RAISE"}
Order(a) == IF a = "FOLD" THEN 1 ELSE IF a = "CALL" THEN 2 ELSE 3

ev_fold == Num(0)

\* A slip: the win and the loss probabilities exchanged.
ev_call_swapped(pot, call_amount, eq) ==
    RSub(RMul(RSub(Num(1), eq), RAdd(pot, call_amount)), RMul(eq, call_amount))

ev_call(pot, call_amount, eq) ==
    RSub(RMul(eq, RAdd(pot, call_amount)),
         RMul(RSub(Num(1), eq), call_amount))

\* Line 26 of ev.py.
called_ev(pot, raise_amount, eq) ==
    RSub(RMul(eq, RAdd(pot, RMul(Num(2), raise_amount))),
         RMul(RSub(Num(1), eq), raise_amount))

\* A slip: the upper end of the clamp of line 25 left out.
ev_raise_halfclamp(pot, raise_amount, eq, fold_prob) ==
    LET fp == RMax(Rat(5, 100), fold_prob)
    IN  RAdd(RMul(fp, pot), RMul(RSub(Num(1), fp), called_ev(pot, raise_amount, eq)))

ev_raise(pot, raise_amount, eq, fold_prob) ==
    LET fp == RMin(Rat(95, 100), RMax(Rat(5, 100), fold_prob))
    IN  RAdd(RMul(fp, pot), RMul(RSub(Num(1), fp), called_ev(pot, raise_amount, eq)))

\* app.py line 89: the slider's percentage as a clamped probability.
FoldProb(fold_to_raise) ==
    RMax(Rat(5, 100), RMin(Rat(95, 100), RDiv(fold_to_raise, Num(100))))

\* A slip: >= for >, so that the last of several maxima wins.
best_action_last(results) ==
    LET b2 == IF RLe(results["FOLD"], results["CALL"]) THEN "CALL" ELSE "FOLD"
    IN  IF RLe(results[b2], results["RAISE"]) THEN "RAISE" ELSE b2

\* app.py lines 138-139: max(results, key=results.get) walks the keys in the
\* order FOLD, CALL, RAISE and keeps a key until a strictly greater one comes.
best_action(results) ==
    LET b2 == IF RLt(results["FOLD"], results["CALL"]) THEN "CALL" ELSE "FOLD"
    IN  IF RLt(results[b2], results["RAISE"]) THEN "RAISE" ELSE b2

\* app.py line 138.
Results3(pot, call_amt, raise_amt, eq, fold_prob) ==
    [a \in Actions |->
        IF a = "FOLD" THEN ev_fold
        ELSE IF a = "CALL" THEN ev_call(pot, call_amt, eq)
        ELSE ev_raise(pot, raise_amt, eq, fold_prob)]

\* The inputs tried: chip amounts, equities e1 <= e2 in [0, 1], fold
\* probabilities inside and outside [0.05, 0.95].
Chips == {Num(5 * i) : i \in 0..ChipSteps} \cup {Num(15)}
Equities == {Rat(k, EquitySteps) : k \in 0..EquitySteps} \cup {Rat(3, 5)}
FoldInputs == {Rat(p, 100) : p \in {-10, 0, 3, 5, 35, 95, 96, 100, 150}}
SliderValues == {Num(p) : p \in {0, 3, 5, 35, 95, 96, 100}}
EvTriples == [Actions -> {Num(-1), Num(0), Num(1)}]

NotEvaluated == [fn |-> "none"]

\* Each behaviour below makes one call, with any of the inputs.

EvFold ==
    /\ evaluated = NotEvaluated
    /\ evaluated' = [fn |-> "ev_fold", val |-> ev_fold]
    /\ UNCHANGED <<ledgerVars, mcVars, repeatVars, appVars>>

EvCall ==
    /\ evaluated = NotEvaluated
    /\ \E pot \in Chips, c \in Chips, e1 \in Equities, e2 \in Equities :
          /\ RLe(e1, e2)
          /\ evaluated' = [fn |-> "ev_call", pot |-> pot, amount |-> c,
                           e1 |-> e1, e2 |-> e2,
                           val |-> ev_call(pot, c, e1),
                           val2 |-> ev_call(pot, c, e2)]
    /\ UNCHANGED <<ledgerVars, mcVars, repeatVars, appVars>>

EvRaise ==
    /\ evaluated = NotEvaluated
    /\ \E pot \in Chips, r \in Chips, e1 \in Equities, e2 \in Equities,
          f \in FoldInputs :
          /\ RLe(e1, e2)
          /\ evaluated' = [fn |-> "ev_raise", pot |-> pot, amount |-> r,
                           e1 |-> e1, e2 |-> e2, f |-> f,
                           val |-> ev_raise(pot, r, e1, f),
                           called |-> called_ev(pot, r, e1),
                           called2 |-> called_ev(pot, r, e2)]
    /\ UNCHANGED <<ledgerVars, mcVars, repeatVars, appVars>>

\* The front end's path to ev_raise: the slider, line 89, then line 136.
EvRaiseFromSlider ==
    /\ evaluated = NotEvaluated
    /\ \E pot \in Chips, r \in Chips, e1 \in Equities, s \in SliderValues :
          evaluated' = [fn |-> "slider", pot |-> pot, amount |-> r, e1 |-> e1,
                        slider |-> s,
                        fold_prob |-> FoldProb(s),
                        val |-> ev_raise(pot, r, e1, FoldProb(s))]
    /\ UNCHANGED <<ledgerVars, mcVars, repeatVars, appVars>>

Select ==
    /\ evaluated = NotEvaluated
    /\ \E t \in EvTriples \cup
                {Results3(pot, c, Num(15), e, Rat(35, 100)) :
                    pot \in Chips, c \in Chips, e \in Equities} :
          evaluated' = [fn |-> "best_action", results |-> t, val |-> best_action(t)]
    /\ UNCHANGED <<ledgerVars, mcVars, repeatVars, appVars>>

EvNext == EvFold \/ EvCall \/ EvRaise \/ EvRaiseFromSlider \/ Select

-----------------------------------------------------------------------------
(* app.py: the decision form and its compute block (lines 26-156).         *)
(* A picker holds a rank choice and a suit choice, 0 for the "—" entry;    *)
(* rank k, suit s is the text of card 2(k-1)+s.                            *)

NoPick == <<0, 0>>

\* card_picker (lines 26-33): None unless both a rank and a suit are chosen.
card_picker(sel) == IF sel[1] = 0 \/ sel[2] = 0 THEN NoPick ELSE sel

\* str_to_card (cards.py) on a picker's text.
str_to_card(c) == 2 * (c[1] - 1) + c[2]

\* parse_cards (lines 35-40): the cards of the entries that are not None.
RECURSIVE parse_cards(_)
parse_cards(card_list) ==
    IF card_list = <<>> THEN <<>>
    ELSE IF Head(card_list) # NoPick
         THEN <<str_to_card(Head(card_list))>> \o parse_cards(Tail(card_list))
         ELSE parse_cards(Tail(card_list))

\* has_duplicates (lines 42-43).
has_duplicates(cards) == Len(cards) # Cardinality(Range(cards))

\* A slip: the check of lines 115-117 left out.
Validate_noriver(h1, h2, f1, f2, f3, t1, r1) ==
    LET hero_cards == parse_cards(<<h1, h2>>)
        board_cards == parse_cards(<<f1, f2, f3, t1, r1>>)
        flop_selected == {f1, f2, f3}
    IN  IF Len(hero_cards) # 2 THEN "error: hero"
        ELSE IF (\E x \in flop_selected : x # NoPick)
                /\ ~(\A x \in flop_selected : x # NoPick) THEN "error: flop"
        ELSE IF t1 # NoPick /\ ~(\A x \in flop_selected : x # NoPick)
             THEN "error: turn"
        ELSE IF has_duplicates(hero_cards \o board_cards) THEN "error: duplicate"
        ELSE "ok"

\* Lines 99-122: the checks in the order the code makes them; the first that
\* fails shows its error and stops the run.
Validate(h1, h2, f1, f2, f3, t1, r1) ==
    LET hero_cards == parse_cards(<<h1, h2>>)
        board_cards == parse_cards(<<f1, f2, f3, t1, r1>>)
        flop_selected == {f1, f2, f3}
    IN  IF Len(hero_cards) # 2 THEN "error: hero"
        ELSE IF (\E x \in flop_selected : x # NoPick)
                /\ ~(\A x \in flop_selected : x # NoPick) THEN "error: flop"
        ELSE IF t1 # NoPick /\ ~(\A x \in flop_selected : x # NoPick)
             THEN "error: turn"
        ELSE IF r1 # NoPick /\ t1 = NoPick THEN "error: river"
        ELSE IF has_duplicates(hero_cards \o board_cards) THEN "error: duplicate"
        ELSE "ok"

\* What the seven pickers are set to in the forms tried: each unset, set, set
\* to a card another picker holds, or (hero 1) set by half.
PickerChoices ==
    [h1 : {NoPick, <<2, 1>>, <<2, 0>>},
     h2 : {NoPick, <<4, 2>>, <<2, 1>>},
     f1 : {NoPick, <<1, 1>>},
     f2 : {NoPick, <<3, 1>>},
     f3 : {NoPick, <<3, 2>>, <<2, 1>>},
     t1 : {NoPick, <<5, 1>>},
     r1 : {NoPick, <<1, 2>>, <<5, 1>>}]
\* The sliders: fold-to-raise in percent; the trial count, which the real
\* slider takes from 500..20000, is 1 here; the seed is the default.
FoldToRaise == {35, 100}
AppTrials == {1}

NoForm == [h1 |-> NoPick]
NoCalc == [equity |-> NoValue]

AppStart ==
    /\ form = NoForm
    /\ last_calc = NoCalc
    /\ run_result = "none"

McExit ==
    /\ hero_hole' = <<>> /\ board' = <<>> /\ dead_cards' = {}
    /\ n' = 0 /\ seed' = 0 /\ rng' = 0
    /\ wins' = 0 /\ ties' = 0 /\ trials' = 0
    /\ deck' = <<>> /\ opp_hole' = <<>> /\ runout' = <<>>
    /\ pc' = "idle" /\ equity' = NoValue

\* "Compute Recommendation" pressed: the script runs with the form's values,
\* lines 98-132.  A failed check ends the run (st.stop()); otherwise the
\* run enters monte_carlo_equity.
SubmitCompute ==
    /\ run_result # "running"
    /\ \E p \in PickerChoices, ftr \in FoldToRaise, mc \in AppTrials :
          LET h1 == card_picker(p.h1)
              h2 == card_picker(p.h2)
              f1 == card_picker(p.f1)
              f2 == card_picker(p.f2)
              f3 == card_picker(p.f3)
              t1 == card_picker(p.t1)
              r1 == card_picker(p.r1)
              hero_cards == parse_cards(<<h1, h2>>)
              board_cards == parse_cards(<<f1, f2, f3, t1, r1>>)
              v == Validate(h1, h2, f1, f2, f3, t1, r1)
          IN  IF v # "ok"
              THEN /\ run_result' = v
                   /\ form' = NoForm
                   /\ UNCHANGED mcVars
              ELSE /\ run_result' = "running"
                   /\ form' = [h1 |-> h1, h2 |-> h2, f1 |-> f1, f2 |-> f2,
                               f3 |-> f3, t1 |-> t1, r1 |-> r1,
                               pot |-> 10, call_amt |-> 5, raise_amt |-> 15,
                               fold_to_raise |-> ftr, looseness |-> 60,
                               aggression |-> 50, mc_trials |-> mc, seed |-> 7]
                   /\ McCall(hero_cards, board_cards,
                             Range(hero_cards \o board_cards), mc, 7)
    /\ UNCHANGED <<last_calc, ledgerVars, repeatVars, evaluated>>

\* Lines 134-156, once monte_carlo_equity has returned: the three EVs, the
\* best action, and the result stored in st.session_state.last_calc.
FinishCompute ==
    /\ run_result = "running" /\ pc = "done"
    /\ LET fold_prob == FoldProb(Num(form.fold_to_raise))
           results == Results3(Num(form.pot), Num(form.call_amt),
                               Num(form.raise_amt), equity, fold_prob)
       IN  last_calc' = [equity |-> equity,
                         evs |-> results,
                         best_action |-> best_action(results),
                         pot |-> form.pot,
                         call_amt |-> form.call_amt,
                         raise_amt |-> form.raise_amt,
                         fold_prob |-> fold_prob,
                         meta |-> [looseness |-> form.looseness,
                                   aggression |-> form.aggression,
                                   mc_trials |-> form.mc_trials,
                                   seed |-> form.seed]]
    /\ run_result' = "computed"
    /\ form' = NoForm
    /\ McExit
    /\ UNCHANGED <<ledgerVars, repeatVars, evaluated>>

AppNext == SubmitCompute \/ McSample \/ McScore \/ McReturn \/ FinishCompute

-----------------------------------------------------------------------------
(* The specifications.                                                     *)

Untouched ==
    /\ runs = 0 /\ first_equity = NoValue /\ evaluated = NotEvaluated
    /\ AppStart

LedgerInit == LedgerStart /\ McIdle /\ Untouched

SpecLedger == LedgerInit /\ [][LedgerNext]_vars

EquityInit == bankroll0 = 0 /\ LedgerStart /\ McIdle /\ Untouched

SpecEquity == EquityInit /\ [][EquityNext]_vars

SpecRepeat == EquityInit /\ [][RepeatNext]_vars

EvInit == bankroll0 = 0 /\ LedgerStart /\ McIdle /\ Untouched

SpecEV == EvInit /\ [][EvNext]_vars

\* app.py lines 12-17: a session with bankroll 0 and no last_calc.
AppInit == bankroll0 = 0 /\ LedgerStart /\ McIdle /\ Untouched

SpecApp == AppInit /\ [][AppNext]_vars

-----------------------------------------------------------------------------
(* Claims about the ledger.                                                *)

RECURSIVE SumSeq(_)
SumSeq(s) == IF s = <<>> THEN 0 ELSE s[1] + SumSeq(Tail(s))

\* C1: after N add_hand calls with results r1..rN the bankroll is the initial
\* bankroll plus r1+...+rN and the log holds exactly N entries, in call order,
\* with hand_id 1, 2, ..., N.
C1_LedgerSum ==
    /\ session.bankroll = bankroll0 + SumSeq(calls)
    /\ Len(session.logs) = Len(calls)
    /\ session.hand_id = Len(calls)
    /\ \A i \in 1..Len(calls) :
          /\ session.logs[i].hand_id = i
          /\ session.logs[i].result = calls[i]

C1_Witness ==
    /\ Len(calls) = MaxHands
    /\ SumSeq(calls) # 0
    /\ bankroll0 # 0
    /\ session.logs[MaxHands].hand_id = MaxHands

\* C10: the log is append-only: a step that changes it keeps every earlier
\* entry, field for field and in place, and adds exactly one entry at the end.
C10_AppendOnly ==
    [][ session'.logs # session.logs =>
          /\ Len(session'.logs) = Len(session.logs) + 1
          /\ SubSeq(session'.logs, 1, Len(session.logs)) = session.logs ]_vars

C10_Witness ==
    /\ Len(session.logs) = MaxHands
    /\ Len(frame) = MaxHands - 1

-----------------------------------------------------------------------------
(* Claims about the equity estimator.                                      *)

\* The cards a trial sampled for the runout: the runout past the board.
DrawnRunout == SubSeq(runout, Len(board) + 1, Len(runout))
Sampled == opp_hole \o DrawnRunout

\* C2: two calls with the same (hero_hole, board, dead_cards, n, seed) return
\* the same equity.
C2_SameEquity ==
    (runs = 2 /\ pc = "done") => equity = first_equity

\* C3: in every trial the two opponent cards and the sampled runout cards hold
\* no dead card and no card twice, whatever earlier trials drew: the cards
\* sampled and the cards left on the deck are together exactly the 52 cards
\* less dead_cards.
C3_NoReuse ==
    pc = "sampled" =>
        /\ Len(opp_hole) = 2
        /\ Len(runout) = Max2(5, Len(board))
        /\ NoDup(Sampled)
        /\ Range(Sampled) \cap dead_cards = {}
        /\ Range(Sampled) \cap Range(deck) = {}
        /\ Range(Sampled) \cup Range(deck) = FullDeck \ dead_cards
        /\ Len(Sampled) + Len(deck) = Cardinality(FullDeck \ dead_cards)

C3_Witness ==
    /\ pc = "sampled" /\ trials >= 1
    /\ board = <<>> /\ Len(DrawnRunout) = 5
    /\ Cardinality(dead_cards) = 2

ValidArgs ==
    /\ pc # "idle"
    /\ Len(hero_hole) = 2 /\ hero_hole[1] # hero_hole[2]
    /\ Len(board) \in {0, 3, 4, 5}
    /\ n >= 1

\* C4: for valid arguments wins + ties <= trials <= n throughout, and the
\* value returned is (wins + 0.5*ties)/n, after exactly n trials, in [0, 1].
C4_EquityRange ==
    ValidArgs =>
        /\ wins >= 0 /\ ties >= 0
        /\ wins + ties <= trials
        /\ trials <= n
        /\ pc = "done" =>
              /\ trials = n
              /\ equity = Rat(2 * wins + ties, 2 * n)
              /\ RLe(Num(0), equity) /\ RLe(equity, Num(1))

C4_Witness ==
    /\ ValidArgs /\ pc = "done"
    /\ n = MaxTrials /\ wins >= 1 /\ ties >= 1
    /\ equity = Rat(2 * wins + ties, 2 * n)

\* The arguments C5 is about.
BadArgsGiven ==
    /\ pc # "idle"
    /\ \/ Len(hero_hole) < 2
       \/ Len(board) \notin {0, 3, 4, 5}
       \/ Range(hero_hole) \cap Range(board) # {}

-----------------------------------------------------------------------------
(* Claims about the EV formulas and the selector.                          *)

\* C7: the selector returns one of FOLD, CALL, RAISE whose EV is at least
\* the EV of each other action, and among the actions of maximal EV the
\* first in the order FOLD, CALL, RAISE.
C7_ArgmaxFirst ==
    evaluated.fn = "best_action" =>
        /\ evaluated.val \in Actions
        /\ \A a \in Actions :
              /\ RLe(evaluated.results[a], evaluated.results[evaluated.val])
              /\ evaluated.results[a] = evaluated.results[evaluated.val]
                    => Order(evaluated.val) <= Order(a)

C7_Witness ==
    /\ evaluated.fn = "best_action"
    /\ evaluated.val = "CALL"
    /\ evaluated.results["RAISE"] = evaluated.results["CALL"]
    /\ RLt(evaluated.results["FOLD"], evaluated.results["CALL"])

\* The clamp of C8, by cases.
Clamped(f) ==
    IF RLt(f, Rat(5, 100)) THEN Rat(5, 100)
    ELSE IF RLt(Rat(95, 100), f) THEN Rat(95, 100) ELSE f

\* x = a/b as an equation between integers.
IsQuotient(x, a, b) == x.num * b = a * x.den

\* C8: ev_fold() = 0; ev_call(pot, c, e) = e*(pot+c) - (1-e)*c;
\* ev_raise(pot, r, e, f) = f'*pot + (1-f')*(e*(pot+2r) - (1-e)*r) with f' the
\* clamp of f to [0.05, 0.95], so that every f below 0.05 gives what 0.05
\* gives and every f above 0.95 what 0.95 gives; clamping in the front end
\* and again in ev_raise gives what clamping once gives.
C8_Formulas ==
    /\ evaluated.fn = "ev_fold" => evaluated.val = Num(0)
    /\ evaluated.fn = "ev_call" =>
          LET e == evaluated.e1
              p == evaluated.pot.num
              c == evaluated.amount.num
          IN  /\ IsQuotient(evaluated.val,
                            e.num * (p + c) - (e.den - e.num) * c, e.den)
              /\ (p = 10 /\ c = 5 /\ e = Rat(3, 5)) => evaluated.val = Num(7)
    /\ evaluated.fn = "ev_raise" =>
          LET e == evaluated.e1
              p == evaluated.pot.num
              r == evaluated.amount.num
              f == Clamped(evaluated.f)
          IN  /\ IsQuotient(evaluated.val,
                            f.num * p * e.den
                              + (f.den - f.num)
                                  * (e.num * (p + 2 * r) - (e.den - e.num) * r),
                            f.den * e.den)
              /\ RLt(evaluated.f, Rat(5, 100)) =>
                    evaluated.val = ev_raise(evaluated.pot, evaluated.amount, e,
                                             Rat(5, 100))
              /\ RLt(Rat(95, 100), evaluated.f) =>
                    evaluated.val = ev_raise(evaluated.pot, evaluated.amount, e,
                                             Rat(95, 100))
              /\ (p = 10 /\ r = 15 /\ e = Rat(3, 5) /\ evaluated.f = Rat(35, 100))
                    => evaluated.val = Rat(76, 5)
    /\ evaluated.fn = "slider" =>
          LET e == evaluated.e1
              p == evaluated.pot.num
              r == evaluated.amount.num
              f == Clamped(RDiv(evaluated.slider, Num(100)))
          IN  /\ evaluated.fold_prob = f
              /\ IsQuotient(evaluated.val,
                            f.num * p * e.den
                              + (f.den - f.num)
                                  * (e.num * (p + 2 * r) - (e.den - e.num) * r),
                            f.den * e.den)

C8_Witness ==
    /\ evaluated.fn = "ev_raise"
    /\ evaluated.f = Rat(150, 100)
    /\ evaluated.pot = Num(10) /\ evaluated.amount = Num(15)
    /\ evaluated.e1 = Rat(3, 5)
    /\ evaluated.val = RAdd(RMul(Rat(95, 100), Num(10)), RMul(Rat(5, 100), Num(18)))

\* C9: for pot, call amount and raise amount >= 0 and equities e1 <= e2 in
\* [0, 1], ev_call at e2 is not below ev_call at e1, and the called branch
\* of ev_raise at e2 is not below the called branch at e1.
C9_MonotoneInEquity ==
    /\ evaluated.fn = "ev_call" => RLe(evaluated.val, evaluated.val2)
    /\ evaluated.fn = "ev_raise" => RLe(evaluated.called, evaluated.called2)

C9_Witness ==
    /\ evaluated.fn = "ev_call"
    /\ RLt(evaluated.e1, evaluated.e2)
    /\ RLt(evaluated.val, Num(0)) /\ RLt(Num(0), evaluated.val2)

-----------------------------------------------------------------------------
(* Claims about the front end.                                             *)

Picked(x) == x # NoPick
CardOf(x) == 2 * (x[1] - 1) + x[2]

\* What C6 calls a valid selection: both hero cards, the board filled in the
\* order flop, turn, river to 0, 3, 4 or 5 cards, and no card chosen twice.
ValidSelection(f) ==
    LET chosen == {k \in {"h1", "h2", "f1", "f2", "f3", "t1", "r1"} : Picked(f[k])}
    IN  /\ Picked(f.h1) /\ Picked(f.h2)
        /\ \/ chosen = {"h1", "h2"}
           \/ chosen = {"h1", "h2", "f1", "f2", "f3"}
           \/ chosen = {"h1", "h2", "f1", "f2", "f3", "t1"}
           \/ chosen = {"h1", "h2", "f1", "f2", "f3", "t1", "r1"}
        /\ \A j, k \in chosen : j # k => CardOf(f[j]) # CardOf(f[k])

\* C6: monte_carlo_equity runs only for a valid selection, with exactly the
\* selected cards; a run that a check stops shows an error, computes no
\* equity and no EV, and leaves last_calc as it was.
C6_ValidatedFirst ==
    /\ [](pc # "idle" =>
            /\ run_result = "running"
            /\ ValidSelection(form)
            /\ hero_hole = <<CardOf(form.h1), CardOf(form.h2)>>
            /\ Len(board) \in {0, 3, 4, 5}
            /\ NoDup(hero_hole \o board)
            /\ dead_cards = Range(hero_hole \o board))
    /\ [][ (run_result' # run_result /\ run_result' \notin {"running", "computed"})
            => /\ last_calc' = last_calc
               /\ pc' = "idle" /\ pc = "idle"
               /\ equity' = NoValue ]_vars

C6_Witness ==
    /\ run_result = "error: river"
    /\ last_calc # NoCalc
    /\ last_calc.best_action = "RAISE"

=============================================================================
